---- MODULE Spec2Model ----
(***************************************************************************)
(* Proposition-to-database similarity matching of src/src/QueryJson.py:    *)
(* main parses the command line, process_propositions_with_database loads  *)
(* the CSV database (load_database_embeddings) and calls                   *)
(* find_similar_propositions once per proposition of the input.            *)
(*                                                                         *)
(* Floating-point numbers are fixed-point integers: an embedding is a      *)
(* tuple of integers, a similarity is their integer dot product and the    *)
(* threshold is an integer on the same scale.  Python's 0-based indices    *)
(* are 1-based here; index order is the same.                              *)
(***************************************************************************)
EXTENDS Integers, Sequences, FiniteSets, TLC

\* Largest number of rows of a database CSV.
MaxRows == 3
\* Largest --top_k given on the command line.
MaxTopK == 3

\* Dimensions of the embeddings (of the query and of the database rows).
Dims == {1, 2}
\* Components of an embedding.
EmbVals == {0, 1}
\* Values of --threshold: every entry reaches 0, none reaches 3.
Thresholds == {0, 1, 2, 3}
\* Values of --top_k (argparse type=int, not validated).
TopKs == 0..MaxTopK

VARIABLES
    pc,                \* where main / process_propositions_with_database is
    csv,               \* the database file that load_database_embeddings read
    build,             \* the order this build's np.argsort gives equal values
    threshold,         \* args.threshold
    top_k,             \* args.top_k
    db_embeddings,     \* the ndarray returned by load_database_embeddings
    db_propositions,   \* the list of dicts returned by load_database_embeddings
    query_embedding,   \* the embedding of the proposition of the last call
    similar_props,     \* the list returned by the last call
    error,             \* the exception raised by the last call
    exit_code,         \* what main returns
    output,            \* whether main has written the output JSON
    data,              \* the input JSON that main read
    model,             \* the embedding model: the vector it gives each text
    documents,         \* the list process_propositions_with_database works on
    doc_idx,           \* the document the loop is at
    prop_idx,          \* the proposition of that document the loop is at
    frames,            \* the locals of the matcher calls that run concurrently
    all_propositions,  \* the propositions of all the documents of the page
    all_embeddings,    \* the ndarray of their embeddings
    fixer,             \* the class of the fixer
    api_key,           \* self.api_key
    markdown_content,  \* the markdown that is to be fixed
    attempt,           \* the attempt the retry loop is at
    calls,             \* how often generate_content was called
    sleeps,            \* the arguments of the calls of time.sleep
    cleaned_markdown,  \* what fix_markdown_with_gemini returned
    processed,         \* what process_markdown_content returned
    response,          \* what the last call of generate_content gave
    api_keys,          \* whether the three API keys are set
    step,              \* the step of the pipeline
    started,           \* the commands started with Popen, in order
    returncodes,       \* the codes process.wait() returned, in order
    process,           \* the subprocess of the step and its pipes
    pending,           \* what the try block returns or raises
    returned,          \* what execute_pipeline has returned or raised
    temp_file,         \* the temporary file the cleanup is at
    unlink_attempt,    \* the attempt of the cleanup's retry loop
    unlinks,           \* how often os.unlink was called for each file
    on_disk,           \* the temporary files that exist
    slept              \* the seconds slept in the monitoring loop, modulo 2

\* The state of the loop over the documents.
docvars == <<data, model, documents, doc_idx, prop_idx>>
\* The state of the Semantic Search page.
searchvars == <<all_propositions, all_embeddings>>
\* The state of a run of the markdown fixer.
fixervars == <<fixer, api_key, markdown_content, attempt, calls, sleeps,
               cleaned_markdown, processed, response>>
\* The state of a run of execute_pipeline.
pipelinevars == <<api_keys, step, started, returncodes, process, pending,
                  returned, temp_file, unlink_attempt, unlinks, on_disk,
                  slept>>
vars == <<pc, csv, build, threshold, top_k, db_embeddings, db_propositions,
          query_embedding, similar_props, error, exit_code, output, docvars,
          frames, searchvars,
          fixervars,
          pipelinevars>>

None == "None"

----------------------------------------------------------------------------
(* Python and numpy primitives used by the matcher *)

Min(a, b) == IF a <= b THEN a ELSE b

\* A slice bound as Python normalises it for a sequence of length n.
PyIndex(i, n) ==
    IF i < 0 THEN (IF n + i < 0 THEN 0 ELSE n + i)
             ELSE (IF i > n THEN n ELSE i)

\* s[:-start] written for s[start:]: the head of the sequence, not its tail.
SliceFrom_Head(s, start) == SubSeq(s, 1, PyIndex(-start, Len(s)))

\* s[start:]
SliceFrom(s, start) == SubSeq(s, PyIndex(start, Len(s)) + 1, Len(s))

\* The slice s[:stop] left out.
SliceTo_Unbounded(s, stop) == s

\* s[:stop]
SliceTo(s, stop) == SubSeq(s, 1, PyIndex(stop, Len(s)))

\* The reversal [::-1] left out.
Reversed_Forgotten(s) == s

\* s[::-1]
Reversed(s) == [p \in 1..Len(s) |-> s[Len(s) + 1 - p]]

\* The elements of a set of integers in ascending order.
Ascending(S) ==
    [p \in 1..Cardinality(S) |->
        CHOOSE i \in S : Cardinality({j \in S : j < i}) = p - 1]

\* The float nan (float("nan") of a database cell); every other number of the
\* model is finite and not negative.
NaN == -1

\* x < y as np.argsort orders floats: nan sorts after every number.
FloatLess(x, y) == x # NaN /\ (y = NaN \/ x < y)

\* x >= y on floats: False when x is nan.
FloatGE(x, y) == x # NaN /\ x >= y

RECURSIVE SumTo(_, _)
SumTo(f, n) == IF n = 0 THEN 0 ELSE f[n] + SumTo(f, n - 1)

\* The dot product of two vectors of one length: nan when a component is nan.
Dot(a, b) ==
    IF \E i \in 1..Len(a) : a[i] = NaN \/ b[i] = NaN
    THEN NaN
    ELSE SumTo([i \in 1..Len(a) |-> a[i] * b[i]], Len(a))

----------------------------------------------------------------------------
(* numpy *)

\* np.array(list of equally long 1-D arrays): shape (n, d); np.array([]) has
\* shape (0,).
NpArray(embeddings_list) ==
    IF Len(embeddings_list) = 0
    THEN [shape |-> <<0>>, data |-> <<>>]
    ELSE [shape |-> <<Len(embeddings_list), Len(embeddings_list[1])>>,
          data |-> embeddings_list]

\* The ValueError "shapes ... not aligned" of np.dot: the matcher's
\* dimension-mismatch failure.
DimensionMismatch == "ValueError: shapes not aligned"

\* A product that truncates both vectors to the shorter one instead of raising.
NpDot_Truncating(a, b) ==
    [error |-> None,
     value |-> [i \in 1..Len(a.data) |->
         SumTo([c \in 1..Min(Len(a.data[i]), Len(b)) |-> a.data[i][c] * b[c]],
               Min(Len(a.data[i]), Len(b)))]]

\* A product that re-normalises both vectors: the (squared, rounded down)
\* cosine, dot(a, b)^2 / (|a|^2 |b|^2), which never exceeds 1.
NpDot_Normalizing(a, b) ==
    IF a.shape[Len(a.shape)] # Len(b)
    THEN [error |-> DimensionMismatch, value |-> <<>>]
    ELSE [error |-> None,
          value |-> [i \in 1..Len(a.data) |->
              IF Dot(a.data[i], b) = 0 THEN 0
              ELSE (Dot(a.data[i], b) * Dot(a.data[i], b))
                       \div (Dot(a.data[i], a.data[i]) * Dot(b, b))]]

\* np.dot(a, b) for b of shape (d,): the last axis of a must have length d,
\* else ValueError.  For a of shape (n, d) the result has shape (n,).
NpDot(a, b) ==
    IF a.shape[Len(a.shape)] # Len(b)
    THEN [error |-> DimensionMismatch, value |-> <<>>]
    ELSE [error |-> None,
          value |-> [i \in 1..Len(a.data) |-> Dot(a.data[i], b)]]

\* The comparison inverted: similarities < threshold.
NpWhereGE_Inverted(similarities, thr) ==
    Ascending({i \in 1..Len(similarities) :
                  similarities[i] # NaN /\ similarities[i] < thr})

\* The bound made exclusive: similarities > threshold.
NpWhereGE_Strict(similarities, thr) ==
    Ascending({i \in 1..Len(similarities) :
                  similarities[i] # NaN /\ similarities[i] > thr})

\* np.where(similarities >= threshold)[0]: the indices, ascending.
NpWhereGE(similarities, thr) ==
    Ascending({i \in 1..Len(similarities) : FloatGE(similarities[i], thr)})

\* Whether np.argsort puts position i before position j: by value, and in
\* this build's order of the positions among equal values (the default
\* kind='quicksort' is not stable: the order of equal values depends on the
\* sorting code numpy selects).
SortsBefore(a, i, j) ==
    \/ FloatLess(a[i], a[j])
    \/ a[i] = a[j] /\ (IF build = "ascending" THEN i < j ELSE i > j)

\* np.argsort(a): the positions of a in ascending order of value.
ArgSort(a) ==
    [p \in 1..Len(a) |->
        CHOOSE i \in 1..Len(a) :
            Cardinality({j \in 1..Len(a) : SortsBefore(a, j, i)}) = p - 1]

\* a[indices]
Take(a, indices) == [p \in 1..Len(indices) |-> a[indices[p]]]

----------------------------------------------------------------------------
(* find_similar_propositions *)

\* The selection without its fallback: nothing when no entry reaches the
\* threshold.
TopIndices_NoFallback(similarities, thr, k) ==
    LET matching_indices == NpWhereGE(similarities, thr)
        sorted_indices ==
            Take(matching_indices,
                 Reversed(ArgSort(Take(similarities, matching_indices))))
    IN SliceTo(sorted_indices, k)

\* The indices selected from the similarities, in the order returned.
TopIndices(similarities, thr, k) ==
    LET matching_indices == NpWhereGE(similarities, thr)
    IN IF Len(matching_indices) = 0
       THEN Reversed(SliceFrom(ArgSort(similarities), -k))
       ELSE LET sorted_indices ==
                    Take(matching_indices,
                         Reversed(ArgSort(Take(similarities, matching_indices))))
            IN SliceTo(sorted_indices, k)

\* An entry that takes its text from the first proposition, not from idx.
MatchOf_StaleIndex(similarities, propositions, idx) ==
    [db_propositions |-> propositions[1].db_proposition,
     id |-> propositions[idx].id,
     similarity |-> similarities[idx]]

\* One entry of the result list.
MatchOf(similarities, propositions, idx) ==
    [db_propositions |-> propositions[idx].db_proposition,
     id |-> propositions[idx].id,
     similarity |-> similarities[idx]]

find_similar_propositions(q, embeddings, propositions, thr, k) ==
    LET dot == NpDot(embeddings, q)
    IN IF dot.error # None
       THEN [error |-> dot.error, results |-> <<>>]
       ELSE LET top_indices == TopIndices(dot.value, thr, k)
            IN [error |-> None,
                results |-> [p \in 1..Len(top_indices) |->
                    MatchOf(dot.value, propositions, top_indices[p])]]

\* The copy of the matcher in srctest/QueryJson.py: it reads the 'text' key of
\* each proposition and emits it under 'text'.
srctest_find_similar_propositions(q, embeddings, propositions, thr, k) ==
    LET dot == NpDot(embeddings, q)
        similarities == dot.value
        matching_indices == NpWhereGE(similarities, thr)
        top_indices ==
            IF Len(matching_indices) = 0
            THEN Reversed(SliceFrom(ArgSort(similarities), -k))
            ELSE SliceTo(Take(matching_indices,
                     Reversed(ArgSort(Take(similarities, matching_indices)))), k)
    IN IF dot.error # None
       THEN [error |-> dot.error, results |-> <<>>]
       ELSE [error |-> None,
             results |-> [p \in 1..Len(top_indices) |->
                 [text |-> propositions[top_indices[p]].text,
                  id |-> propositions[top_indices[p]].id,
                  similarity |-> similarities[top_indices[p]]]]]

\* The copy in new_document_analysis/compare_claims_to_db.py: it reads the
\* 'db_proposition' key and emits it under 'db_propositions'.
compare_claims_find_similar_propositions(q, embeddings, propositions, thr, k) ==
    LET dot == NpDot(embeddings, q)
        similarities == dot.value
        matching_indices == NpWhereGE(similarities, thr)
        top_indices ==
            IF Len(matching_indices) = 0
            THEN Reversed(SliceFrom(ArgSort(similarities), -k))
            ELSE SliceTo(Take(matching_indices,
                     Reversed(ArgSort(Take(similarities, matching_indices)))), k)
    IN IF dot.error # None
       THEN [error |-> dot.error, results |-> <<>>]
       ELSE [error |-> None,
             results |-> [p \in 1..Len(top_indices) |->
                 [db_propositions |-> propositions[top_indices[p]].db_proposition,
                  id |-> propositions[top_indices[p]].id,
                  similarity |-> similarities[top_indices[p]]]]]

\* A Semantic Search copy that cuts the matches to top_k before it sorts them.
semantic_search_find_similar_propositions_CutFirst(q, embeddings, propositions, thr, k) ==
    LET dot == NpDot(embeddings, q)
        similarities == dot.value
        matching_indices == NpWhereGE(similarities, thr)
        cut == SliceTo(matching_indices, k)
        top_indices ==
            IF Len(matching_indices) = 0
            THEN Reversed(SliceFrom(ArgSort(similarities), -k))
            ELSE Take(cut, Reversed(ArgSort(Take(similarities, cut))))
    IN IF dot.error # None
       THEN [error |-> dot.error, results |-> <<>>]
       ELSE [error |-> None,
             results |-> [p \in 1..Len(top_indices) |->
                 [text |-> propositions[top_indices[p]].text,
                  id |-> propositions[top_indices[p]].id,
                  similarity |-> similarities[top_indices[p]]]]]

\* The copy nested in streamlit_app/pages/5_Semantic_Search.py: it reads the
\* 'text' key and emits it under 'text'.
semantic_search_find_similar_propositions(q, embeddings, propositions, thr, k) ==
    LET dot == NpDot(embeddings, q)
        similarities == dot.value
        matching_indices == NpWhereGE(similarities, thr)
        top_indices ==
            IF Len(matching_indices) = 0
            THEN Reversed(SliceFrom(ArgSort(similarities), -k))
            ELSE SliceTo(Take(matching_indices,
                     Reversed(ArgSort(Take(similarities, matching_indices)))), k)
    IN IF dot.error # None
       THEN [error |-> dot.error, results |-> <<>>]
       ELSE [error |-> None,
             results |-> [p \in 1..Len(top_indices) |->
                 [text |-> propositions[top_indices[p]].text,
                  id |-> propositions[top_indices[p]].id,
                  similarity |-> similarities[top_indices[p]]]]]

----------------------------------------------------------------------------
(* load_database_embeddings *)

\* The fields of an 'embeddings' cell between its commas, after
\* strip('[]').split(','): numerals, and one that float() rejects.
Numerals == {"0", "1"}
\* The fields that float() turns into a non-finite number.
NonFinite == {"nan"}

\* float(x.strip())
Float(x) == IF x = "0" THEN 0 ELSE IF x = "1" THEN 1 ELSE NaN

\* The database files: unreadable, or a table with some of the columns
\* 'id', 'text', 'embeddings' and up to MaxRows rows (at most one row when a
\* column is missing).  Row i holds its own id and text; the cells of the
\* embeddings column have one number of fields.
Cells(d) == [1..d -> Numerals] \cup {[i \in 1..d |-> IF i = d THEN "x" ELSE "0"]}
ColumnSets == {{"id", "text", "embeddings"}, {"text", "embeddings"},
               {"id", "embeddings"}, {"id", "text"}}
Tables ==
    UNION {[columns : {{"id", "text", "embeddings"}}, cells : [1..n -> Cells(d)]] :
              n \in 0..MaxRows, d \in Dims}
    \cup UNION {[columns : ColumnSets, cells : [1..n -> Cells(d)]] :
                   n \in 0..1, d \in Dims}
CSVs == Tables \cup {[columns |-> {}, cells |-> <<"unreadable">>]}
Unreadable(file) == file.columns = {} /\ file.cells # <<>>
\* No file has been read yet.
NoCSV == [columns |-> {}, cells |-> <<>>]

\* The tables of which a row holds a nan in its embedding.
NonFiniteCells(d) == {[i \in 1..d |-> IF i = d THEN "nan" ELSE "0"]}
NonFiniteTables ==
    UNION {{[columns |-> {"id", "text", "embeddings"}, cells |-> c] :
               c \in {t \in [1..n -> [1..d -> Numerals] \cup NonFiniteCells(d)] :
                          \E i \in 1..n : t[i] \in NonFiniteCells(d)}} :
              n \in 1..MaxRows, d \in Dims}

\* The id column of the tables: row i (0-based in the file) is named after
\* its position.
IdColumn(i) == <<"db_row", i - 1>>
\* row['id'] of row i: the id column, or the placeholder f"db_row_{i}".
RowId(file, i) == IF "id" \in file.columns THEN IdColumn(i) ELSE <<"db_row", i - 1>>
\* row['text'] of row i.
RowText(i) == <<"text", i>>

\* Whether float() accepts every field of the cell.
Parses(cell) == \A i \in 1..Len(cell) : cell[i] \in Numerals \cup NonFinite

\* np.array([float(x.strip()) for x in values])
ParseEmbedding(cell) == [i \in 1..Len(cell) |-> Float(cell[i])]

\* A loader that skips the rows whose cell does not parse and loads the rest.
load_database_embeddings_SkipsRows(file) ==
    IF \/ Unreadable(file)
       \/ "text" \notin file.columns
       \/ "embeddings" \notin file.columns
    THEN [ok |-> FALSE, db_embeddings |-> NpArray(<<>>), db_propositions |-> <<>>]
    ELSE LET kept == Ascending({i \in 1..Len(file.cells) : Parses(file.cells[i])})
         IN [ok |-> TRUE,
             db_embeddings |->
                 NpArray([p \in 1..Len(kept) |-> ParseEmbedding(file.cells[kept[p]])]),
             db_propositions |->
                 [p \in 1..Len(kept) |->
                     [id |-> RowId(file, kept[p]), db_proposition |-> RowText(kept[p])]]]

\* The pair load_database_embeddings returns; ok = FALSE stands for (None, None).
load_database_embeddings(file) ==
    IF \/ Unreadable(file)
       \/ "text" \notin file.columns
       \/ "embeddings" \notin file.columns
       \/ \E i \in 1..Len(file.cells) : ~Parses(file.cells[i])
    THEN [ok |-> FALSE, db_embeddings |-> NpArray(<<>>), db_propositions |-> <<>>]
    ELSE [ok |-> TRUE,
          db_embeddings |->
              NpArray([i \in 1..Len(file.cells) |-> ParseEmbedding(file.cells[i])]),
          db_propositions |->
              [i \in 1..Len(file.cells) |->
                  [id |-> RowId(file, i), db_proposition |-> RowText(i)]]]

----------------------------------------------------------------------------
(* main and process_propositions_with_database *)

\* create_embedding: the embedding model maps a proposition text to a vector.
Queries == UNION {[1..d -> EmbVals] : d \in Dims}

\* The orders np.argsort gives equal values: by ascending position (a stable
\* sort) or by descending position.
Builds == {"ascending", "descending"}

\* Python strings of the markdown fixer.
\* The longest markdown and the longest response text.
MaxLen == 2
\* max_retries of fix_markdown_with_gemini.
max_retries == 3

\* The characters of the texts: a blank and a heading mark.
Chars == {" ", "#"}
\* The texts: the markdown of the input and the text of a response.
Markdowns == UNION {[1..n -> Chars] : n \in 0..MaxLen}

\* A Python value that is None or a str.
PyNone == [is_none |-> TRUE, text |-> <<>>]
Str(t) == [is_none |-> FALSE, text |-> t]
\* not value
Falsy(value) == value.is_none \/ Len(value.text) = 0

\* str.lstrip() and str.strip()
RECURSIVE LStrip(_)
LStrip(s) ==
    IF Len(s) > 0 /\ Head(s) = " " THEN LStrip(Tail(s)) ELSE s
Strip(s) == Reversed(LStrip(Reversed(LStrip(s))))

\* The two classes with a fix_markdown_with_gemini.
FixerClasses == {"MarkdownFixer", "MarkdownFixerService"}

\* No fixer runs.
NoFixer ==
    /\ fixer = None
    /\ api_key = None
    /\ markdown_content = <<>>
    /\ attempt = 0
    /\ calls = 0
    /\ sleeps = <<>>
    /\ cleaned_markdown = PyNone
    /\ processed = PyNone
    /\ response = None

\* The pipes, commands and files of execute_pipeline.
\* How many chunks a pipe holds before a write to it blocks.
PipeCapacity == 2
\* The most chunks a subprocess writes to one of its pipes.
MaxOutput == 3
\* for attempt in range(3) of the cleanup.
unlink_attempts == 3

\* The commands of the five steps, and the five temporary files.
Commands == <<"llamaparse_converter.py", "markdown_fixer.py", "propositions.py",
              "QueryJson.py", "citation.py">>
TempFiles == <<"markdown_path", "fixed_markdown_path", "propositions_path",
               "queryjson_output_path", "citations_path">>

\* execute_pipeline has not returned, nor decided what it returns.
NotYet == "not yet"

\* No subprocess.
NoProcess ==
    [status |-> "none", stdout_left |-> 0, stderr_left |-> 0,
     stdout_pipe |-> 0, stderr_pipe |-> 0, returncode |-> 0]

\* No pipeline runs.
NoPipeline ==
    /\ api_keys = FALSE
    /\ step = 0
    /\ started = <<>>
    /\ returncodes = <<>>
    /\ process = NoProcess
    /\ pending = NotYet
    /\ returned = NotYet
    /\ temp_file = 0
    /\ unlink_attempt = 0
    /\ unlinks = <<>>
    /\ on_disk = {}
    /\ slept = 0

\* The Semantic Search page has collected nothing.
NoSearch ==
    /\ all_propositions = <<>>
    /\ all_embeddings = NpArray(<<>>)

\* No input JSON has been read.
NoData == [type |-> "none", value |-> <<>>]

Init ==
    /\ pc = "load"
    /\ csv = NoCSV
    /\ build \in Builds
    /\ threshold \in Thresholds
    /\ top_k \in TopKs
    /\ db_embeddings = NpArray(<<>>)
    /\ db_propositions = <<>>
    /\ query_embedding = <<>>
    /\ similar_props = <<>>
    /\ error = None
    /\ exit_code = -1
    /\ output = None
    /\ data = NoData
    /\ model = <<>>
    /\ documents = <<>>
    /\ doc_idx = 0
    /\ prop_idx = 0
    /\ frames = <<>>
    /\ NoSearch
    /\ NoFixer
    /\ NoPipeline

\* The database loads: the loop over the propositions starts.
LoadOk ==
    /\ pc = "load"
    /\ \E file \in CSVs :
        LET db == load_database_embeddings(file)
        IN /\ db.ok
           /\ csv' = file
           /\ db_embeddings' = db.db_embeddings
           /\ db_propositions' = db.db_propositions
    /\ pc' = "loop"
    /\ UNCHANGED <<pipelinevars, fixervars, searchvars, docvars, frames, build, threshold, top_k, query_embedding, similar_props,
                   error, exit_code, output>>

\* A failed load whose None is not tested: the loop starts on no database.
LoadFails_Unchecked ==
    /\ pc = "load"
    /\ \E file \in CSVs :
        /\ ~load_database_embeddings(file).ok
        /\ csv' = file
    /\ pc' = "loop"
    /\ UNCHANGED <<pipelinevars, fixervars, searchvars, docvars, frames, build, threshold, top_k, db_embeddings, db_propositions,
                   query_embedding, similar_props, error, exit_code, output>>

\* The database does not load: process_propositions_with_database returns
\* None and main returns 1.
LoadFails ==
    /\ pc = "load"
    /\ \E file \in CSVs :
        /\ ~load_database_embeddings(file).ok
        /\ csv' = file
    /\ pc' = "exit"
    /\ exit_code' = 1
    /\ UNCHANGED <<pipelinevars, fixervars, searchvars, docvars, frames, build, threshold, top_k, db_embeddings, db_propositions,
                   query_embedding, similar_props, error, output>>

\* An iteration that normalises the reference embeddings in place before the
\* comparison (here: clears them), instead of only reading them.
MatchReturns_InPlace ==
    /\ pc = "loop"
    /\ \E q \in Queries :
        LET r == find_similar_propositions(q, db_embeddings, db_propositions,
                                           threshold, top_k)
        IN /\ r.error = None
           /\ query_embedding' = q
           /\ similar_props' = r.results
    /\ db_embeddings' =
           [db_embeddings EXCEPT
               !.data = [i \in 1..Len(@) |-> [c \in 1..Len(@[i]) |-> 0]]]
    /\ error' = None
    /\ UNCHANGED <<pipelinevars, fixervars, searchvars, docvars, frames, pc, csv, build, threshold, top_k, db_propositions,
                   exit_code, output>>

\* One iteration of the loop: the next proposition is embedded and matched, and
\* the result is attached to it.
MatchReturns ==
    /\ pc = "loop"
    /\ \E q \in Queries :
        LET r == find_similar_propositions(q, db_embeddings, db_propositions,
                                           threshold, top_k)
        IN /\ r.error = None
           /\ query_embedding' = q
           /\ similar_props' = r.results
    /\ error' = None
    /\ UNCHANGED <<pipelinevars, fixervars, searchvars, docvars, frames, pc, csv, build, threshold, top_k, db_embeddings, db_propositions,
                   exit_code, output>>

\* One iteration of the loop in which the matcher raises: the exception leaves
\* process_propositions_with_database and main's handler returns 1.
MatchRaises ==
    /\ pc = "loop"
    /\ \E q \in Queries :
        LET r == find_similar_propositions(q, db_embeddings, db_propositions,
                                           threshold, top_k)
        IN /\ r.error # None
           /\ query_embedding' = q
           /\ similar_props' = r.results
           /\ error' = r.error
    /\ pc' = "exit"
    /\ exit_code' = 1
    /\ UNCHANGED <<pipelinevars, fixervars, searchvars, docvars, frames, csv, build, threshold, top_k, db_embeddings, db_propositions,
                   output>>

\* No proposition is left: the documents are returned (the locals of the loop
\* are gone), main writes them and returns 0.
Finish ==
    /\ pc = "loop"
    /\ pc' = "exit"
    /\ output' = "written"
    /\ exit_code' = 0
    /\ query_embedding' = <<>>
    /\ similar_props' = <<>>
    /\ UNCHANGED <<pipelinevars, fixervars, searchvars, docvars, frames, csv, build, threshold, top_k, db_embeddings, db_propositions, error>>

\* No proposition is left, and writing the output raises: main returns 1.
WriteFails ==
    /\ pc = "loop"
    /\ pc' = "exit"
    /\ exit_code' = 1
    /\ query_embedding' = <<>>
    /\ similar_props' = <<>>
    /\ UNCHANGED <<pipelinevars, fixervars, searchvars, docvars, frames, csv, build, threshold, top_k, db_embeddings, db_propositions,
                   error, output>>

Next ==
    \/ LoadOk
    \/ LoadFails
    \/ MatchReturns
    \/ MatchRaises
    \/ Finish
    \/ WriteFails

Spec == Init /\ [][Next]_vars

----------------------------------------------------------------------------
(* The same program on a database that holds a nan *)

\* The database loads: float() accepts "nan".
LoadNonFinite ==
    /\ pc = "load"
    /\ \E file \in NonFiniteTables :
        LET db == load_database_embeddings(file)
        IN /\ db.ok
           /\ csv' = file
           /\ db_embeddings' = db.db_embeddings
           /\ db_propositions' = db.db_propositions
    /\ pc' = "loop"
    /\ UNCHANGED <<pipelinevars, fixervars, searchvars, docvars, frames, build, threshold, top_k, query_embedding, similar_props,
                   error, exit_code, output>>

NextNonFinite ==
    \/ LoadNonFinite
    \/ MatchReturns
    \/ MatchRaises
    \/ Finish

SpecNonFinite == Init /\ [][NextNonFinite]_vars

----------------------------------------------------------------------------
(* process_propositions_with_database, document by document *)

\* The proposition texts of the inputs.
Texts == {"a", "b"}
\* The one output dimension of the embedding model, which also produced the
\* embeddings of the database the documents are matched against.
ModelDim == CHOOSE d \in Dims : \A e \in Dims : d <= e
Models == [Texts -> [1..ModelDim -> EmbVals]]
\* create_embedding: the vector the model gives the text.
create_embedding(text) == model[text]

\* The input JSON, with the Python type of its top-level value. Every
\* element of a list is a dict.
SingleDocument ==
    [type |-> "dict",
     value |-> [documentId |-> "d1",
                propositions |-> <<[id |-> "p1", text |-> "a"],
                                   [id |-> "p2", cleanText |-> "b", text |-> "a"]>>]]
DocumentList ==
    [type |-> "list",
     value |-> <<[documentId |-> "d1", propositions |-> <<[text |-> "a"]>>],
                 [documentId |-> "d2"],
                 [documentId |-> "d3", propositions |-> <<>>],
                 [documentId |-> "d4",
                  propositions |-> <<[Text |-> "b"], [text |-> "a"]>>]>>]
\* A list of documents of which the first has no 'propositions' key.
HeadlessDocumentList ==
    [type |-> "list",
     value |-> <<[documentId |-> "a"],
                 [documentId |-> "b", propositions |-> <<[text |-> "a"]>>]>>]
PropositionList ==
    [type |-> "list", value |-> <<[text |-> "a"], [cleanText |-> "b"]>>]
EmptyDocumentList ==
    [type |-> "list", value |-> <<[documentId |-> "d1", propositions |-> <<>>]>>]
EmptyList == [type |-> "list", value |-> <<>>]
DocumentWithoutPropositions ==
    [type |-> "dict", value |-> [documentId |-> "d1"]]
JsonString == [type |-> "str", value |-> "a"]
DictInputs == {SingleDocument, DocumentWithoutPropositions}
ListInputs == {DocumentList, HeadlessDocumentList, PropositionList,
               EmptyDocumentList, EmptyList}
OtherInputs == {JsonString}

\* "propositions" in document
HasPropositions(document) == "propositions" \in DOMAIN document
\* 'propositions' in document and document['propositions']
HasSome(document) ==
    HasPropositions(document) /\ Len(document.propositions) > 0

\* The documents list the format detection builds; <<>> when the format is
\* invalid (the function then returns None).
DetectFormat(d) ==
    IF d.type = "dict" /\ HasPropositions(d.value)
    THEN <<d.value>>
    ELSE IF d.type = "list"
         THEN IF Len(d.value) > 0 /\ HasPropositions(d.value[1])
              THEN d.value
              ELSE <<[documentId |-> "doc_1", propositions |-> d.value]>>
         ELSE <<>>

\* The keys of the inputs whose values are strings.
StringKeys == {"id", "sourceText", "documentId", "cleanText", "Text", "text"}
\* The text of a proposition that is embedded.
PropText(prop) ==
    IF "cleanText" \in DOMAIN prop THEN prop.cleanText
    ELSE IF "Text" \in DOMAIN prop THEN prop.Text
    ELSE IF "text" \in DOMAIN prop THEN prop.text
    ELSE LET keys == (DOMAIN prop \cap StringKeys) \ {"id", "sourceText"}
         IN IF keys = {} THEN "" ELSE prop[CHOOSE key \in keys : TRUE]

\* dict[key] = value
SetItem(dict, key, value) ==
    [k \in DOMAIN dict \cup {key} |-> IF k = key THEN value ELSE dict[k]]

\* The databases of the runs over documents: those the embedding model made,
\* and a file that cannot be read.
DocumentCSVs ==
    {t \in CSVs : /\ Unreadable(t) \/ t.columns = {"id", "text", "embeddings"}
                  /\ \A i \in 1..Len(t.cells) :
                         Unreadable(t) \/ Len(t.cells[i]) = ModelDim}

InitDocuments ==
    /\ pc = "load"
    /\ csv = NoCSV
    /\ build \in Builds
    /\ threshold \in Thresholds
    /\ top_k \in TopKs
    /\ db_embeddings = NpArray(<<>>)
    /\ db_propositions = <<>>
    /\ query_embedding = <<>>
    /\ similar_props = <<>>
    /\ error = None
    /\ exit_code = -1
    /\ output = None
    /\ \/ data \in DictInputs
       \/ data \in ListInputs
       \/ data \in OtherInputs
    /\ model \in Models
    /\ documents = <<>>
    /\ doc_idx = 0
    /\ prop_idx = 0
    /\ frames = <<>>
    /\ NoSearch
    /\ NoFixer
    /\ NoPipeline

\* The database loads.
ProcessLoadOk ==
    /\ pc = "load"
    /\ \E file \in DocumentCSVs :
        LET db == load_database_embeddings(file)
        IN /\ db.ok
           /\ csv' = file
           /\ db_embeddings' = db.db_embeddings
           /\ db_propositions' = db.db_propositions
    /\ pc' = "format"
    /\ UNCHANGED <<pipelinevars, fixervars, searchvars, build, threshold, top_k, query_embedding, similar_props,
                   error, exit_code, output, docvars, frames>>

\* The database does not load: the function returns None, main returns 1.
ProcessLoadFails ==
    /\ pc = "load"
    /\ \E file \in DocumentCSVs :
        /\ ~load_database_embeddings(file).ok
        /\ csv' = file
    /\ pc' = "exit"
    /\ exit_code' = 1
    /\ UNCHANGED <<pipelinevars, fixervars, searchvars, build, threshold, top_k, db_embeddings, db_propositions,
                   query_embedding, similar_props, error, output, docvars,
                   frames>>

\* The input is neither a document nor a list: the function returns None.
ProcessInvalidFormat ==
    /\ pc = "format"
    /\ DetectFormat(data) = <<>>
    /\ pc' = "exit"
    /\ exit_code' = 1
    /\ UNCHANGED <<pipelinevars, fixervars, searchvars, csv, build, threshold, top_k, db_embeddings, db_propositions,
                   query_embedding, similar_props, error, output, docvars,
                   frames>>

\* No document has a proposition: the documents are returned as they are.
ProcessNoPropositions ==
    /\ pc = "format"
    /\ DetectFormat(data) # <<>>
    /\ \A i \in 1..Len(DetectFormat(data)) : ~HasSome(DetectFormat(data)[i])
    /\ documents' = DetectFormat(data)
    /\ pc' = "return"
    /\ UNCHANGED <<pipelinevars, fixervars, searchvars, csv, build, threshold, top_k, db_embeddings, db_propositions,
                   query_embedding, similar_props, error, exit_code, output,
                   data, model, doc_idx, prop_idx, frames>>

\* The loop over the documents starts at the first one.
ProcessStart ==
    /\ pc = "format"
    /\ \E i \in 1..Len(DetectFormat(data)) : HasSome(DetectFormat(data)[i])
    /\ documents' = DetectFormat(data)
    /\ doc_idx' = 1
    /\ prop_idx' = 1
    /\ pc' = "annotate"
    /\ UNCHANGED <<pipelinevars, fixervars, searchvars, csv, build, threshold, top_k, db_embeddings, db_propositions,
                   query_embedding, similar_props, error, exit_code, output,
                   data, model, frames>>

\* A document without propositions: continue.
ProcessSkip ==
    /\ pc = "annotate"
    /\ doc_idx <= Len(documents)
    /\ ~HasSome(documents[doc_idx])
    /\ doc_idx' = doc_idx + 1
    /\ UNCHANGED <<pipelinevars, fixervars, searchvars, pc, csv, build, threshold, top_k, db_embeddings,
                   db_propositions, query_embedding, similar_props, error,
                   exit_code, output, data, model, documents, prop_idx, frames>>

\* One iteration of the inner loop: the proposition is embedded, matched and
\* given its 'closest_database_matches'.
ProcessAnnotate ==
    /\ pc = "annotate"
    /\ doc_idx <= Len(documents)
    /\ HasSome(documents[doc_idx])
    /\ LET prop == documents[doc_idx].propositions[prop_idx]
           q == create_embedding(PropText(prop))
           r == find_similar_propositions(q, db_embeddings, db_propositions,
                                          threshold, top_k)
       IN /\ r.error = None
          /\ query_embedding' = q
          /\ similar_props' = r.results
          /\ documents' =
                 [documents EXCEPT ![doc_idx].propositions[prop_idx] =
                     SetItem(prop, "closest_database_matches", r.results)]
    /\ IF prop_idx < Len(documents[doc_idx].propositions)
       THEN /\ prop_idx' = prop_idx + 1
            /\ doc_idx' = doc_idx
       ELSE /\ prop_idx' = 1
            /\ doc_idx' = doc_idx + 1
    /\ UNCHANGED <<pipelinevars, fixervars, searchvars, pc, csv, build, threshold, top_k, db_embeddings,
                   db_propositions, error, exit_code, output, data, model,
                   frames>>

\* The matcher raises: the exception leaves the function, main returns 1.
ProcessRaises ==
    /\ pc = "annotate"
    /\ doc_idx <= Len(documents)
    /\ HasSome(documents[doc_idx])
    /\ LET prop == documents[doc_idx].propositions[prop_idx]
           q == create_embedding(PropText(prop))
           r == find_similar_propositions(q, db_embeddings, db_propositions,
                                          threshold, top_k)
       IN /\ r.error # None
          /\ query_embedding' = q
          /\ error' = r.error
    /\ pc' = "exit"
    /\ exit_code' = 1
    /\ UNCHANGED <<pipelinevars, fixervars, searchvars, csv, build, threshold, top_k, db_embeddings, db_propositions,
                   similar_props, output, docvars, frames>>

\* The loop is over: the documents are returned.
ProcessReturn ==
    /\ pc = "annotate"
    /\ doc_idx > Len(documents)
    /\ pc' = "return"
    /\ UNCHANGED <<pipelinevars, fixervars, searchvars, csv, build, threshold, top_k, db_embeddings, db_propositions,
                   query_embedding, similar_props, error, exit_code, output,
                   docvars, frames>>

NextDocuments ==
    \/ ProcessLoadOk
    \/ ProcessLoadFails
    \/ ProcessInvalidFormat
    \/ ProcessNoPropositions
    \/ ProcessStart
    \/ ProcessSkip
    \/ ProcessAnnotate
    \/ ProcessRaises
    \/ ProcessReturn

SpecDocuments == InitDocuments /\ [][NextDocuments]_vars

----------------------------------------------------------------------------
(* Concurrent calls of find_similar_propositions on one database *)

\* The threads that call the matcher.
Threads == {1, 2}
\* The locals of a call that has not started.
IdleFrame ==
    [pc |-> "idle", query_embedding |-> <<>>, similarities |-> <<>>,
     top_indices |-> <<>>, results |-> <<>>, error |-> None]
\* The embeddings of the texts the threads match.
ThreadQueries == [1..ModelDim -> EmbVals]

InitConcurrent ==
    /\ pc = "load"
    /\ csv = NoCSV
    /\ build \in Builds
    /\ threshold \in Thresholds
    /\ top_k \in TopKs
    /\ db_embeddings = NpArray(<<>>)
    /\ db_propositions = <<>>
    /\ query_embedding = <<>>
    /\ similar_props = <<>>
    /\ error = None
    /\ exit_code = -1
    /\ output = None
    /\ data = NoData
    /\ model = <<>>
    /\ documents = <<>>
    /\ doc_idx = 0
    /\ prop_idx = 0
    /\ frames = [t \in Threads |-> IdleFrame]
    /\ NoSearch
    /\ NoFixer
    /\ NoPipeline

\* The database loads, and the threads get the arrays it returned.
ShareDatabase ==
    /\ pc = "load"
    /\ \E file \in DocumentCSVs :
        LET db == load_database_embeddings(file)
        IN /\ db.ok
           /\ csv' = file
           /\ db_embeddings' = db.db_embeddings
           /\ db_propositions' = db.db_propositions
    /\ pc' = "concurrent"
    /\ UNCHANGED <<pipelinevars, fixervars, searchvars, build, threshold, top_k, query_embedding, similar_props,
                   error, exit_code, output, docvars, frames>>

\* Thread t calls the matcher with its own query.
ThreadCall(t) ==
    /\ pc = "concurrent"
    /\ frames[t].pc = "idle"
    /\ \E q \in ThreadQueries :
        frames' = [frames EXCEPT ![t] =
                      [IdleFrame EXCEPT !.pc = "dot", !.query_embedding = q]]
    /\ UNCHANGED <<pipelinevars, fixervars, searchvars, pc, csv, build, threshold, top_k, db_embeddings,
                   db_propositions, query_embedding, similar_props, error,
                   exit_code, output, docvars>>

\* A np.dot that leaves its product in one array all the calls use.
ThreadDot_SharedBuffer(t) ==
    /\ frames[t].pc = "dot"
    /\ LET dot == NpDot(db_embeddings, frames[t].query_embedding)
       IN /\ dot.error = None
          /\ frames' = [u \in Threads |->
                 IF u = t
                 THEN [frames[u] EXCEPT !.pc = "select",
                                        !.similarities = dot.value]
                 ELSE IF frames[u].pc \in {"select", "emit"}
                      THEN [frames[u] EXCEPT !.similarities = dot.value]
                      ELSE frames[u]]
    /\ UNCHANGED <<pipelinevars, fixervars, searchvars, pc, csv, build, threshold, top_k, db_embeddings,
                   db_propositions, query_embedding, similar_props, error,
                   exit_code, output, docvars>>

\* similarities = np.dot(db_embeddings, query_embedding), into a local.
ThreadDot(t) ==
    /\ frames[t].pc = "dot"
    /\ LET dot == NpDot(db_embeddings, frames[t].query_embedding)
       IN /\ dot.error = None
          /\ frames' = [frames EXCEPT ![t].pc = "select",
                                      ![t].similarities = dot.value]
    /\ UNCHANGED <<pipelinevars, fixervars, searchvars, pc, csv, build, threshold, top_k, db_embeddings,
                   db_propositions, query_embedding, similar_props, error,
                   exit_code, output, docvars>>

\* np.dot raises in thread t.
ThreadDotRaises(t) ==
    /\ frames[t].pc = "dot"
    /\ LET dot == NpDot(db_embeddings, frames[t].query_embedding)
       IN /\ dot.error # None
          /\ frames' = [frames EXCEPT ![t].pc = "raised",
                                      ![t].error = dot.error]
    /\ UNCHANGED <<pipelinevars, fixervars, searchvars, pc, csv, build, threshold, top_k, db_embeddings,
                   db_propositions, query_embedding, similar_props, error,
                   exit_code, output, docvars>>

\* Thread t selects its top_indices.
ThreadSelect(t) ==
    /\ frames[t].pc = "select"
    /\ frames' = [frames EXCEPT
           ![t].pc = "emit",
           ![t].top_indices = TopIndices(frames[t].similarities, threshold, top_k)]
    /\ UNCHANGED <<pipelinevars, fixervars, searchvars, pc, csv, build, threshold, top_k, db_embeddings,
                   db_propositions, query_embedding, similar_props, error,
                   exit_code, output, docvars>>

\* Thread t appends the next entry to its results.
ThreadAppend(t) ==
    /\ frames[t].pc = "emit"
    /\ Len(frames[t].results) < Len(frames[t].top_indices)
    /\ LET idx == frames[t].top_indices[Len(frames[t].results) + 1]
       IN frames' = [frames EXCEPT ![t].results =
              Append(@, MatchOf(frames[t].similarities, db_propositions, idx))]
    /\ UNCHANGED <<pipelinevars, fixervars, searchvars, pc, csv, build, threshold, top_k, db_embeddings,
                   db_propositions, query_embedding, similar_props, error,
                   exit_code, output, docvars>>

\* Thread t returns its results.
ThreadReturn(t) ==
    /\ frames[t].pc = "emit"
    /\ Len(frames[t].results) = Len(frames[t].top_indices)
    /\ frames' = [frames EXCEPT ![t].pc = "returned"]
    /\ UNCHANGED <<pipelinevars, fixervars, searchvars, pc, csv, build, threshold, top_k, db_embeddings,
                   db_propositions, query_embedding, similar_props, error,
                   exit_code, output, docvars>>

NextConcurrent ==
    \/ ShareDatabase
    \/ \E t \in Threads : ThreadCall(t)
    \/ \E t \in Threads : ThreadDot(t)
    \/ \E t \in Threads : ThreadDotRaises(t)
    \/ \E t \in Threads : ThreadSelect(t)
    \/ \E t \in Threads : ThreadAppend(t)
    \/ \E t \in Threads : ThreadReturn(t)

SpecConcurrent == InitConcurrent /\ [][NextConcurrent]_vars

----------------------------------------------------------------------------
(* The Semantic Search page: every proposition against all the others *)

\* The sliders of the page: a threshold of at most 1.0 and top_k of 1 to 10.
SliderThresholds == {t \in Thresholds : t <= 1}
SliderTopKs == TopKs \ {0}

\* The JSON files of the page.  Every proposition has an 'id' and a 'text'.
SearchDocument ==
    [type |-> "dict",
     value |-> [documentId |-> "d1",
                propositions |-> <<[id |-> "p1", text |-> "a"],
                                   [id |-> "p2", text |-> "b"],
                                   [id |-> "p3", text |-> "a"]>>]]
SearchOneProposition ==
    [type |-> "dict",
     value |-> [documentId |-> "d1",
                propositions |-> <<[id |-> "p1", text |-> "a"]>>]]
SearchDocumentList ==
    [type |-> "list",
     value |-> <<[documentId |-> "d1",
                  propositions |-> <<[id |-> "p1", text |-> "a"],
                                     [id |-> "p2", text |-> "b"]>>],
                 [documentId |-> "d2"],
                 [documentId |-> "d3",
                  propositions |-> <<[id |-> "p3", text |-> "b"]>>]>>]
\* Two documents that both number their propositions from p1.
SearchSharedIds ==
    [type |-> "list",
     value |-> <<[documentId |-> "d1",
                  propositions |-> <<[id |-> "p1", text |-> "a"],
                                     [id |-> "p2", text |-> "b"]>>],
                 [documentId |-> "d2",
                  propositions |-> <<[id |-> "p1", text |-> "b"]>>]>>]
SearchDictInputs ==
    {SearchDocument, SearchOneProposition, DocumentWithoutPropositions}
SearchListInputs == {SearchDocumentList, SearchSharedIds}

\* documents of the page; <<>> when the format is invalid (st.stop()).
SearchDocuments(d) ==
    IF d.type = "dict" /\ HasPropositions(d.value)
    THEN <<d.value>>
    ELSE IF d.type = "list" THEN d.value ELSE <<>>

\* all_propositions: the propositions of the documents, in order.
RECURSIVE Collect(_)
Collect(docs) ==
    IF Len(docs) = 0
    THEN <<>>
    ELSE IF HasSome(Head(docs))
         THEN Head(docs).propositions \o Collect(Tail(docs))
         ELSE Collect(Tail(docs))

\* next((i for i, p in enumerate(all_propositions) if p['id'] == prop['id']))
\* of an id that is in all_propositions.
CurrentIdx(props, prop) ==
    CHOOSE i \in 1..Len(props) :
        /\ props[i].id = prop.id
        /\ \A j \in 1..(i - 1) : props[j].id # prop.id

\* list without the element at idx
Without(list, idx) ==
    [i \in 1..(Len(list) - 1) |-> IF i < idx THEN list[i] ELSE list[i + 1]]
\* all_embeddings[mask], the mask false at idx only: shape (n - 1, d).
Masked(a, idx) ==
    [shape |-> <<a.shape[1] - 1, a.shape[2]>>, data |-> Without(a.data, idx)]

\* The position in all_propositions of proposition prop_idx of document
\* doc_idx.
RECURSIVE Position(_, _, _)
Position(docs, d, p) ==
    IF d = 1
    THEN p
    ELSE (IF HasSome(docs[d - 1]) THEN Len(docs[d - 1].propositions) ELSE 0)
         + Position(docs, d - 1, p)

InitSearch ==
    /\ pc = "button"
    /\ csv = NoCSV
    /\ build \in Builds
    /\ threshold \in SliderThresholds
    /\ top_k \in SliderTopKs
    /\ db_embeddings = NpArray(<<>>)
    /\ db_propositions = <<>>
    /\ query_embedding = <<>>
    /\ similar_props = <<>>
    /\ error = None
    /\ exit_code = -1
    /\ output = None
    /\ \/ data \in SearchDictInputs
       \/ data \in SearchListInputs
       \/ data \in OtherInputs
    /\ model \in Models
    /\ documents = <<>>
    /\ doc_idx = 0
    /\ prop_idx = 0
    /\ frames = <<>>
    /\ NoSearch
    /\ NoFixer
    /\ NoPipeline

\* The JSON is neither a document nor a list: st.stop().
SearchInvalidFormat ==
    /\ pc = "button"
    /\ data.type # "list"
    /\ SearchDocuments(data) = <<>>
    /\ pc' = "stopped"
    /\ UNCHANGED <<pipelinevars, fixervars, csv, build, threshold, top_k, db_embeddings, db_propositions,
                   query_embedding, similar_props, error, exit_code, output,
                   docvars, frames, searchvars>>

\* The propositions are collected and embedded; the loop starts.
SearchEmbed ==
    /\ pc = "button"
    /\ data.type = "list" \/ SearchDocuments(data) # <<>>
    /\ documents' = SearchDocuments(data)
    /\ all_propositions' = Collect(SearchDocuments(data))
    /\ all_embeddings' =
           NpArray([i \in 1..Len(Collect(SearchDocuments(data))) |->
                       create_embedding(Collect(SearchDocuments(data))[i].text)])
    /\ doc_idx' = 1
    /\ prop_idx' = 1
    /\ pc' = "search"
    /\ UNCHANGED <<pipelinevars, fixervars, csv, build, threshold, top_k, db_embeddings, db_propositions,
                   query_embedding, similar_props, error, exit_code, output,
                   data, model, frames>>

\* A document without propositions: continue.
SearchSkip ==
    /\ pc = "search"
    /\ doc_idx <= Len(documents)
    /\ ~HasSome(documents[doc_idx])
    /\ doc_idx' = doc_idx + 1
    /\ UNCHANGED <<pipelinevars, fixervars, pc, csv, build, threshold, top_k, db_embeddings,
                   db_propositions, query_embedding, similar_props, error,
                   exit_code, output, data, model, documents, prop_idx, frames,
                   searchvars>>

\* One proposition: it is looked up in all_propositions by its id, matched
\* against all the others and given its 'closest_values'.
SearchAnnotate ==
    /\ pc = "search"
    /\ doc_idx <= Len(documents)
    /\ HasSome(documents[doc_idx])
    /\ LET prop == documents[doc_idx].propositions[prop_idx]
           current_idx == CurrentIdx(all_propositions, prop)
           q == all_embeddings.data[current_idx]
           r == semantic_search_find_similar_propositions(
                    q, Masked(all_embeddings, current_idx),
                    Without(all_propositions, current_idx), threshold, top_k)
       IN /\ query_embedding' = q
          /\ similar_props' = r.results
          /\ documents' =
                 [documents EXCEPT ![doc_idx].propositions[prop_idx] =
                     SetItem(prop, "closest_values", r.results)]
    /\ IF prop_idx < Len(documents[doc_idx].propositions)
       THEN /\ prop_idx' = prop_idx + 1
            /\ doc_idx' = doc_idx
       ELSE /\ prop_idx' = 1
            /\ doc_idx' = doc_idx + 1
    /\ UNCHANGED <<pipelinevars, fixervars, pc, csv, build, threshold, top_k, db_embeddings,
                   db_propositions, error, exit_code, output, data, model,
                   frames, searchvars>>

\* The loop is over: the enhanced JSON is saved.
SearchSave ==
    /\ pc = "search"
    /\ doc_idx > Len(documents)
    /\ pc' = "saved"
    /\ UNCHANGED <<pipelinevars, fixervars, csv, build, threshold, top_k, db_embeddings, db_propositions,
                   query_embedding, similar_props, error, exit_code, output,
                   docvars, frames, searchvars>>

NextSearch ==
    \/ SearchInvalidFormat
    \/ SearchEmbed
    \/ SearchSkip
    \/ SearchAnnotate
    \/ SearchSave

SpecSearch == InitSearch /\ [][NextSearch]_vars

----------------------------------------------------------------------------
(* The markdown fixer: MarkdownFixer and MarkdownFixerService *)

InitFixer ==
    /\ pc = "process"
    /\ csv = NoCSV
    /\ build = "ascending"
    /\ threshold = 0
    /\ top_k = 0
    /\ db_embeddings = NpArray(<<>>)
    /\ db_propositions = <<>>
    /\ query_embedding = <<>>
    /\ similar_props = <<>>
    /\ error = None
    /\ exit_code = -1
    /\ output = None
    /\ data = NoData
    /\ model = <<>>
    /\ documents = <<>>
    /\ doc_idx = 0
    /\ prop_idx = 0
    /\ frames = <<>>
    /\ NoSearch
    /\ fixer \in FixerClasses
    /\ api_key \in {"", "key"}
    /\ markdown_content \in Markdowns
    /\ attempt = 0
    /\ calls = 0
    /\ sleeps = <<>>
    /\ cleaned_markdown = PyNone
    /\ processed = PyNone
    /\ response = None
    /\ NoPipeline

\* What a run of the fixer leaves alone.
notfixer == <<csv, build, threshold, top_k, db_embeddings, db_propositions,
              query_embedding, similar_props, error, exit_code, output,
              docvars, frames, searchvars>>

\* The content is empty: None (False for the service) without a call.
FixerEmptyInput ==
    /\ pc = "process"
    /\ Len(markdown_content) = 0
    /\ pc' = "done"
    /\ UNCHANGED <<pipelinevars, notfixer, fixervars>>

\* MarkdownFixer without an API key: fix_markdown_with_gemini returns None.
FixerNoKey ==
    /\ pc = "process"
    /\ Len(markdown_content) > 0
    /\ fixer = "MarkdownFixer"
    /\ api_key = ""
    /\ pc' = "fixed"
    /\ UNCHANGED <<pipelinevars, notfixer, fixervars>>

\* The prompt is made and the retry loop starts.
FixerStart ==
    /\ pc = "process"
    /\ Len(markdown_content) > 0
    /\ fixer = "MarkdownFixerService" \/ api_key # ""
    /\ pc' = "call"
    /\ UNCHANGED <<pipelinevars, notfixer, fixervars>>

\* generate_content returns a response with parts: its text is returned.
CallReturnsText ==
    /\ pc = "call"
    /\ \E text \in Markdowns : cleaned_markdown' = Str(text)
    /\ response' = "parts"
    /\ calls' = calls + 1
    /\ pc' = "fixed"
    /\ UNCHANGED <<pipelinevars, notfixer, fixer, api_key, markdown_content, attempt, sleeps,
                   processed>>

\* generate_content returns a response without parts: the original markdown
\* is returned.
CallReturnsNoParts ==
    /\ pc = "call"
    /\ cleaned_markdown' = Str(markdown_content)
    /\ response' = "no parts"
    /\ calls' = calls + 1
    /\ pc' = "fixed"
    /\ UNCHANGED <<pipelinevars, notfixer, fixer, api_key, markdown_content, attempt, sleeps,
                   processed>>

\* A retry loop that also retries after the last attempt.
CallRaisesRetry_OneMore ==
    /\ pc = "call"
    /\ attempt < max_retries
    /\ calls' = calls + 1
    /\ sleeps' = Append(sleeps, 2 ^ attempt)
    /\ attempt' = attempt + 1
    /\ response' = "raised"
    /\ UNCHANGED <<pipelinevars, notfixer, pc, fixer, api_key, markdown_content,
                   cleaned_markdown, processed>>

\* generate_content raises before the last attempt: time.sleep(2 ** attempt),
\* and the next attempt.
CallRaisesRetry ==
    /\ pc = "call"
    /\ attempt < max_retries - 1
    /\ calls' = calls + 1
    /\ sleeps' = Append(sleeps, 2 ^ attempt)
    /\ attempt' = attempt + 1
    /\ response' = "raised"
    /\ UNCHANGED <<pipelinevars, notfixer, pc, fixer, api_key, markdown_content,
                   cleaned_markdown, processed>>

\* generate_content raises at the last attempt: the exception is raised again,
\* the outer handler returns None.
CallRaisesLast ==
    /\ pc = "call"
    /\ attempt = max_retries - 1
    /\ calls' = calls + 1
    /\ cleaned_markdown' = PyNone
    /\ response' = "raised"
    /\ pc' = "fixed"
    /\ UNCHANGED <<pipelinevars, notfixer, fixer, api_key, markdown_content, attempt, sleeps,
                   processed>>

\* process_markdown_content / process_markdown_file when the fixer returned
\* nothing: None (False).
ProcessNothing ==
    /\ pc = "fixed"
    /\ Falsy(cleaned_markdown)
    /\ processed' = PyNone
    /\ pc' = "done"
    /\ UNCHANGED <<pipelinevars, notfixer, fixer, api_key, markdown_content, attempt, calls,
                   sleeps, cleaned_markdown, response>>

\* A process_markdown_content that gives up when nothing has changed.
ProcessContent_ChangedOnly ==
    /\ pc = "fixed"
    /\ ~Falsy(cleaned_markdown)
    /\ processed' =
           IF Strip(cleaned_markdown.text) # Strip(markdown_content)
           THEN cleaned_markdown
           ELSE PyNone
    /\ pc' = "done"
    /\ UNCHANGED <<pipelinevars, notfixer, fixer, api_key, markdown_content, attempt, calls,
                   sleeps, cleaned_markdown, response>>

\* The fixer returned content: the cleaned markdown when it differs from the
\* original by more than outer whitespace, else the original (the service
\* writes it to the output file).
ProcessContent ==
    /\ pc = "fixed"
    /\ ~Falsy(cleaned_markdown)
    /\ processed' =
           IF Strip(cleaned_markdown.text) # Strip(markdown_content)
           THEN cleaned_markdown
           ELSE Str(markdown_content)
    /\ pc' = "done"
    /\ UNCHANGED <<pipelinevars, notfixer, fixer, api_key, markdown_content, attempt, calls,
                   sleeps, cleaned_markdown, response>>

\* The service cannot write the output file: False.
ProcessWriteFails ==
    /\ pc = "fixed"
    /\ fixer = "MarkdownFixerService"
    /\ ~Falsy(cleaned_markdown)
    /\ processed' = PyNone
    /\ pc' = "done"
    /\ UNCHANGED <<pipelinevars, notfixer, fixer, api_key, markdown_content, attempt, calls,
                   sleeps, cleaned_markdown, response>>

NextFixer ==
    \/ FixerEmptyInput
    \/ FixerNoKey
    \/ FixerStart
    \/ CallReturnsText
    \/ CallReturnsNoParts
    \/ CallRaisesRetry
    \/ CallRaisesLast
    \/ ProcessNothing
    \/ ProcessContent
    \/ ProcessWriteFails

\* Every call of generate_content returns or raises, and the interpreter goes
\* on: a step that can be taken is taken.
SpecFixer == InitFixer /\ [][NextFixer]_vars /\ WF_vars(NextFixer)

----------------------------------------------------------------------------
(* execute_pipeline: five subprocesses and the cleanup of their files *)

\* What a run of the pipeline leaves alone.
notpipeline == <<csv, build, threshold, top_k, db_embeddings, db_propositions,
                 query_embedding, similar_props, error, exit_code, output,
                 docvars, frames, searchvars, fixervars>>
\* The temporary files, by their position in the cleanup's list.
Files == 1..Len(TempFiles)
\* The exit codes of a subprocess: 0, or a failure.
ExitCodes == {0, 1}

InitPipeline ==
    /\ pc = "call"
    /\ csv = NoCSV
    /\ build = "ascending"
    /\ threshold = 0
    /\ top_k = 0
    /\ db_embeddings = NpArray(<<>>)
    /\ db_propositions = <<>>
    /\ query_embedding = <<>>
    /\ similar_props = <<>>
    /\ error = None
    /\ exit_code = -1
    /\ output = None
    /\ data = NoData
    /\ model = <<>>
    /\ documents = <<>>
    /\ doc_idx = 0
    /\ prop_idx = 0
    /\ frames = <<>>
    /\ NoSearch
    /\ NoFixer
    /\ api_keys \in BOOLEAN
    /\ step = 0
    /\ started = <<>>
    /\ returncodes = <<>>
    /\ process = NoProcess
    /\ pending = NotYet
    /\ returned = NotYet
    /\ temp_file = 0
    /\ unlink_attempt = 0
    /\ unlinks = <<>>
    /\ on_disk = {}
    /\ slept = 0

\* An API key is missing: None, before any temporary file is made.
PipelineNoKeys ==
    /\ pc = "call"
    /\ ~api_keys
    /\ returned' = "None"
    /\ pc' = "returned"
    /\ UNCHANGED <<notpipeline, slept, api_keys, step, started, returncodes, process,
                   pending, temp_file, unlink_attempt, unlinks, on_disk>>

\* The five temporary files are made and the try block is entered.
PipelineEnter ==
    /\ pc = "call"
    /\ api_keys
    /\ on_disk' = Files
    /\ unlinks' = [f \in Files |-> 0]
    /\ step' = 1
    /\ pc' = "start"
    /\ UNCHANGED <<notpipeline, slept, api_keys, started, returncodes, process,
                   pending, returned, temp_file, unlink_attempt>>

\* subprocess.Popen of the command of the step, with stdout and stderr as
\* pipes; the subprocess has some output to write to each.
StartStep ==
    /\ pc = "start"
    /\ \E out \in 0..MaxOutput, err \in 0..MaxOutput :
        process' = [status |-> "running", stdout_left |-> out,
                    stderr_left |-> err, stdout_pipe |-> 0, stderr_pipe |-> 0,
                    returncode |-> 0]
    /\ started' = Append(started, Commands[step])
    /\ pc' = "monitor"
    /\ UNCHANGED <<notpipeline, slept, api_keys, step, returncodes, pending, returned,
                   temp_file, unlink_attempt, unlinks, on_disk>>

\* The subprocess writes a chunk to stdout: there is room in the pipe.
ChildWritesStdout ==
    /\ process.status = "running"
    /\ process.stdout_left > 0
    /\ process.stdout_pipe < PipeCapacity
    /\ process' = [process EXCEPT !.stdout_left = @ - 1, !.stdout_pipe = @ + 1]
    /\ UNCHANGED <<notpipeline, slept, pc, api_keys, step, started, returncodes,
                   pending, returned, temp_file, unlink_attempt, unlinks,
                   on_disk>>

\* The subprocess writes a chunk to stderr: there is room in the pipe.
ChildWritesStderr ==
    /\ process.status = "running"
    /\ process.stderr_left > 0
    /\ process.stderr_pipe < PipeCapacity
    /\ process' = [process EXCEPT !.stderr_left = @ - 1, !.stderr_pipe = @ + 1]
    /\ UNCHANGED <<notpipeline, slept, pc, api_keys, step, started, returncodes,
                   pending, returned, temp_file, unlink_attempt, unlinks,
                   on_disk>>

\* The subprocess has written all its output and exits.
ChildExits ==
    /\ process.status = "running"
    /\ process.stdout_left = 0
    /\ process.stderr_left = 0
    /\ \E code \in ExitCodes :
        process' = [process EXCEPT !.status = "exited", !.returncode = code]
    /\ UNCHANGED <<notpipeline, slept, pc, api_keys, step, started, returncodes,
                   pending, returned, temp_file, unlink_attempt, unlinks,
                   on_disk>>

\* process.poll() is None: time.sleep(1).  Nothing is read from the pipes.
Poll ==
    /\ pc = "monitor"
    /\ process.status = "running"
    /\ slept' = (slept + 1) % 2
    /\ UNCHANGED <<notpipeline, pc, api_keys, step, started, returncodes,
                   process, pending, returned, temp_file, unlink_attempt,
                   unlinks, on_disk>>

\* A failed step that is taken for a success.
CollectStep_IgnoresCode ==
    /\ pc = "monitor"
    /\ process.status = "exited"
    /\ returncodes' = Append(returncodes, process.returncode)
    /\ process' = NoProcess
    /\ slept' = 0
    /\ pc' = "after"
    /\ UNCHANGED <<notpipeline, api_keys, step, started, pending, returned,
                   temp_file, unlink_attempt, unlinks, on_disk>>

\* The subprocess has exited: process.wait(), process.communicate() reads the
\* pipes, and a non-zero code returns None (the finally block is next).
CollectStep ==
    /\ pc = "monitor"
    /\ process.status = "exited"
    /\ returncodes' = Append(returncodes, process.returncode)
    /\ process' = NoProcess
    /\ slept' = 0
    /\ IF process.returncode # 0
       THEN /\ pending' = "None"
            /\ temp_file' = 1
            /\ pc' = "cleanup"
       ELSE /\ pc' = "after"
            /\ UNCHANGED <<pending, temp_file>>
    /\ UNCHANGED <<notpipeline, api_keys, step, started, returned,
                   unlink_attempt, unlinks, on_disk>>

\* The step succeeded and is not the last: the next step.
NextStep ==
    /\ pc = "after"
    /\ step < Len(Commands)
    /\ step' = step + 1
    /\ pc' = "start"
    /\ UNCHANGED <<notpipeline, slept, api_keys, started, returncodes, process,
                   pending, returned, temp_file, unlink_attempt, unlinks,
                   on_disk>>

\* The last step succeeded: the outputs are read and returned.
ReadOutputs ==
    /\ pc = "after"
    /\ step = Len(Commands)
    /\ pending' = "result"
    /\ temp_file' = 1
    /\ pc' = "cleanup"
    /\ UNCHANGED <<notpipeline, slept, api_keys, step, started, returncodes, process,
                   returned, unlink_attempt, unlinks, on_disk>>

\* Reading the output of a step raises (the intermediate result that is shown,
\* or the outputs of the last step).
ReadRaises ==
    /\ pc = "after"
    /\ pending' = "raised"
    /\ temp_file' = 1
    /\ pc' = "cleanup"
    /\ UNCHANGED <<notpipeline, slept, api_keys, step, started, returncodes, process,
                   returned, unlink_attempt, unlinks, on_disk>>

\* os.path.exists(temp_file) is false: the file is gone, the next file.
CleanupMissing ==
    /\ pc = "cleanup"
    /\ temp_file <= Len(TempFiles)
    /\ unlink_attempt = 0
    /\ on_disk' = on_disk \ {temp_file}
    /\ temp_file' = temp_file + 1
    /\ UNCHANGED <<notpipeline, slept, pc, api_keys, step, started, returncodes,
                   process, pending, returned, unlink_attempt, unlinks>>

\* os.unlink(temp_file) succeeds: break, the next file.
UnlinkOk ==
    /\ pc = "cleanup"
    /\ temp_file <= Len(TempFiles)
    /\ unlinks' = [unlinks EXCEPT ![temp_file] = @ + 1]
    /\ on_disk' = on_disk \ {temp_file}
    /\ unlink_attempt' = 0
    /\ temp_file' = temp_file + 1
    /\ UNCHANGED <<notpipeline, slept, pc, api_keys, step, started, returncodes,
                   process, pending, returned>>

\* A cleanup whose last failure leaves execute_pipeline as an exception.
UnlinkFails_Escapes ==
    /\ pc = "cleanup"
    /\ temp_file <= Len(TempFiles)
    /\ unlinks' = [unlinks EXCEPT ![temp_file] = @ + 1]
    /\ IF unlink_attempt = unlink_attempts - 1
       THEN /\ returned' = "raised"
            /\ pc' = "returned"
            /\ UNCHANGED <<unlink_attempt, temp_file>>
       ELSE /\ unlink_attempt' = unlink_attempt + 1
            /\ UNCHANGED <<pc, returned, temp_file>>
    /\ UNCHANGED <<notpipeline, slept, api_keys, step, started, returncodes, process,
                   pending, on_disk>>

\* os.unlink(temp_file) raises: time.sleep(1), and the next attempt, or after
\* the last attempt a message on stderr and the next file.
UnlinkFails ==
    /\ pc = "cleanup"
    /\ temp_file <= Len(TempFiles)
    /\ unlinks' = [unlinks EXCEPT ![temp_file] = @ + 1]
    /\ IF unlink_attempt = unlink_attempts - 1
       THEN /\ unlink_attempt' = 0
            /\ temp_file' = temp_file + 1
       ELSE /\ unlink_attempt' = unlink_attempt + 1
            /\ UNCHANGED temp_file
    /\ UNCHANGED <<notpipeline, slept, pc, api_keys, step, started, returncodes,
                   process, pending, returned, on_disk>>

\* The finally block is over: the try block's return or exception goes on.
CleanupDone ==
    /\ pc = "cleanup"
    /\ temp_file > Len(TempFiles)
    /\ returned' = pending
    /\ pc' = "returned"
    /\ UNCHANGED <<notpipeline, slept, api_keys, step, started, returncodes, process,
                   pending, temp_file, unlink_attempt, unlinks, on_disk>>

NextPipeline ==
    \/ PipelineNoKeys
    \/ PipelineEnter
    \/ StartStep
    \/ ChildWritesStdout
    \/ ChildWritesStderr
    \/ ChildExits
    \/ Poll
    \/ CollectStep
    \/ NextStep
    \/ ReadOutputs
    \/ ReadRaises
    \/ CleanupMissing
    \/ UnlinkOk
    \/ UnlinkFails
    \/ CleanupDone

\* The steps of the subprocess, and those of execute_pipeline.
ChildStep == ChildWritesStdout \/ ChildWritesStderr \/ ChildExits
ParentStep ==
    \/ PipelineNoKeys
    \/ PipelineEnter
    \/ StartStep
    \/ Poll
    \/ CollectStep
    \/ NextStep
    \/ ReadOutputs
    \/ ReadRaises
    \/ CleanupMissing
    \/ UnlinkOk
    \/ UnlinkFails
    \/ CleanupDone

\* The parent and the subprocess are both scheduled, and every system call
\* that can return does: each of the two takes a step it can take.
SpecPipeline ==
    InitPipeline /\ [][NextPipeline]_vars
    /\ WF_vars(ParentStep) /\ WF_vars(ChildStep)

----------------------------------------------------------------------------
(* The last call of the matcher *)

\* The matcher has been called, and the call is the last thing that happened.
Called == query_embedding # <<>>
\* The last call returned its list.
Returned == Called /\ pc = "loop" /\ error = None

\* n: the number of reference entries.
NumEntries == Len(db_propositions)
Entries == 1..NumEntries
\* d2: the dimension of the reference embeddings (of a non-empty collection).
RefDim == db_embeddings.shape[2]

\* similarity[i] of the last call (for a query of the references' dimension).
Similarity(i) == Dot(db_embeddings.data[i], query_embedding)
\* S: the entries that reach the threshold.
AboveThreshold == {i \in Entries : Similarity(i) >= threshold}

\* The collection index of a returned match.
RowOf(m) == CHOOSE i \in Entries : db_propositions[i].id = m.id
Positions == 1..Len(similar_props)
SelectedRows == {RowOf(similar_props[p]) : p \in Positions}
\* Every returned match is another entry, and reports that entry's similarity.
DistinctEntries ==
    /\ Cardinality(SelectedRows) = Len(similar_props)
    /\ \A p \in Positions :
           similar_props[p].similarity = Similarity(RowOf(similar_props[p]))
Descending ==
    \A p \in Positions : p < Len(similar_props) =>
        similar_props[p].similarity >= similar_props[p + 1].similarity
\* No entry of the set T that was left out is more similar than a returned one.
BestOf(T) ==
    \A i \in T \ SelectedRows : \A p \in Positions :
        Similarity(i) <= similar_props[p].similarity

----------------------------------------------------------------------------
(* Claims *)

\* C1: for a non-empty reference collection, a query of the references'
\* dimension and top_k >= 1, the matcher returns at least one match, whatever
\* the threshold (also one no similarity reaches).
C1_NonEmptyResult ==
    (Called /\ NumEntries >= 1 /\ top_k >= 1 /\ RefDim = Len(query_embedding))
        => (Returned /\ Len(similar_props) >= 1)

\* C1 witness: a call with a threshold above every similarity returned matches.
C1_Witness ==
    /\ Returned /\ NumEntries >= 1 /\ top_k >= 1
    /\ AboveThreshold = {}
    /\ Len(similar_props) >= 1

\* C2: with n reference entries and top_k >= 1 the matcher returns at most
\* min(top_k, n) matches, on the threshold path and on the fallback path.
C2_BoundedSize ==
    (Returned /\ top_k >= 1) => Len(similar_props) <= Min(top_k, NumEntries)

\* C2 witness: more entries reach the threshold than top_k allows, and top_k
\* matches are returned.
C2_Witness ==
    /\ Returned /\ top_k >= 1
    /\ Cardinality(AboveThreshold) > top_k
    /\ Len(similar_props) = top_k

\* C3: in every result, each match is at least as similar as the next one.
C3_DescendingOrder == Returned => Descending

\* C3 witness: a result whose first match is strictly more similar than its
\* second.
C3_Witness ==
    /\ Returned /\ Len(similar_props) >= 2
    /\ similar_props[1].similarity > similar_props[2].similarity

\* C4: if at least top_k (>= 1) entries reach the threshold, every returned
\* match reaches the threshold.
C4_ThresholdRespected ==
    (Returned /\ top_k >= 1 /\ Cardinality(AboveThreshold) >= top_k)
        => \A p \in Positions : similar_props[p].similarity >= threshold

\* C4 witness: top_k entries or more reach the threshold, another entry does
\* not, and matches are returned.
C4_Witness ==
    /\ Returned /\ top_k >= 1
    /\ Cardinality(AboveThreshold) >= top_k
    /\ AboveThreshold # Entries
    /\ Len(similar_props) >= 1

\* C5: when no entry reaches the threshold (and top_k >= 1), the matcher
\* returns exactly min(top_k, n) distinct entries, in descending order of
\* similarity, and no entry left out is more similar than a returned one.
C5_FallbackTopK ==
    (Returned /\ top_k >= 1 /\ AboveThreshold = {})
        => /\ Len(similar_props) = Min(top_k, NumEntries)
           /\ DistinctEntries
           /\ Descending
           /\ BestOf(Entries)

\* C5 witness: a fallback result that leaves out an entry strictly less
\* similar than the last match.
C5_Witness ==
    /\ Returned /\ top_k >= 1 /\ AboveThreshold = {}
    /\ \E i \in Entries \ SelectedRows :
           Similarity(i) < similar_props[Len(similar_props)].similarity

\* C6: when the set S of entries that reach the threshold (inclusive) is not
\* empty (and top_k >= 1), the matcher returns exactly min(top_k, |S|) distinct
\* members of S, the most similar ones, and no entry below the threshold.
C6_ThresholdPath ==
    (Returned /\ top_k >= 1 /\ AboveThreshold # {})
        => /\ Len(similar_props) = Min(top_k, Cardinality(AboveThreshold))
           /\ DistinctEntries
           /\ SelectedRows \subseteq AboveThreshold
           /\ BestOf(AboveThreshold)

\* C6 witness: fewer entries than top_k reach the threshold, one of them
\* exactly, other entries do not, and only the former are returned.
C6_Witness ==
    /\ Returned /\ AboveThreshold # {}
    /\ Cardinality(AboveThreshold) < top_k
    /\ AboveThreshold # Entries
    /\ \E i \in AboveThreshold : Similarity(i) = threshold
    /\ Len(similar_props) = Cardinality(AboveThreshold)

\* C7: matches of equal similarity are returned in ascending order of their
\* collection index, and of two equally similar entries of which one is cut
\* off, the lower index is the one returned.
C7_TieBreakByIndex ==
    (Returned /\ top_k >= 1)
        => /\ \A p, r \in Positions :
                 (p < r /\ similar_props[p].similarity = similar_props[r].similarity)
                     => RowOf(similar_props[p]) < RowOf(similar_props[r])
           /\ \A p \in Positions : \A i \in Entries \ SelectedRows :
                 Similarity(i) = similar_props[p].similarity
                     => RowOf(similar_props[p]) < i

\* C9: a query of dimension d1 against references of dimension d2 # d1 makes
\* the matcher fail with the dimension-mismatch error; no list is returned.
C9_DimensionMismatchRejected ==
    (Called /\ NumEntries >= 1 /\ RefDim # Len(query_embedding))
        => /\ error = DimensionMismatch
           /\ similar_props = <<>>
           /\ pc = "exit"

\* C9 witness: a call with mismatched dimensions has raised.
C9_Witness ==
    /\ Called /\ NumEntries >= 1 /\ RefDim # Len(query_embedding)
    /\ error = DimensionMismatch

\* The error the matcher is to raise for an empty reference collection.
EmptyReferenceSet == "EmptyReferenceSet"

\* C10: a call of the matcher with an empty reference collection (a database
\* of zero rows) fails with the error EmptyReferenceSet.
C10_EmptyReferenceSetRejected ==
    (Called /\ NumEntries = 0) => error = EmptyReferenceSet

\* Whether an embedding of the last call holds a non-finite value.
HasNonFinite ==
    \/ \E c \in 1..Len(query_embedding) : query_embedding[c] = NaN
    \/ \E i \in 1..Len(db_embeddings.data) :
           \E c \in 1..Len(db_embeddings.data[i]) : db_embeddings.data[i][c] = NaN

\* The error the matcher is to raise for a non-finite embedding.
InvalidEmbedding == "InvalidEmbedding"

\* C11: a call of the matcher in which the query embedding or a reference
\* embedding holds a non-finite value fails with the error InvalidEmbedding, so
\* no entry with a non-finite similarity is ranked, dropped or returned.
C11_InvalidEmbeddingRejected ==
    (Called /\ HasNonFinite) => error = InvalidEmbedding

\* The dot product, summed from the first component on.
RECURSIVE PlainDot(_, _)
PlainDot(a, b) ==
    IF a = <<>> THEN 0 ELSE Head(a) * Head(b) + PlainDot(Tail(a), Tail(b))

FileRow(i) ==
    [id |-> <<"db_row", i - 1>>,
     text |-> <<"text", i>>,
     embedding |-> [c \in 1..Len(csv.cells[i]) |->
                       IF csv.cells[i][c] = "1" THEN 1 ELSE 0]]

\* C14: for every database that loads, embeddings and entries have the length
\* of the file, and every returned match carries the id and the text of one
\* row of the file and the similarity of the query to that row's embedding.
C14_MatchFromOneRow ==
    Returned =>
        /\ Len(db_embeddings.data) = Len(csv.cells)
        /\ Len(db_propositions) = Len(csv.cells)
        /\ \A p \in Positions : \E i \in 1..Len(csv.cells) :
               /\ similar_props[p].id = FileRow(i).id
               /\ similar_props[p].db_propositions = FileRow(i).text
               /\ similar_props[p].similarity =
                      PlainDot(FileRow(i).embedding, query_embedding)

\* C14 witness: the first match is a row other than the first, whose similarity
\* differs from the first row's.
C14_Witness ==
    /\ Returned /\ Len(similar_props) >= 1
    /\ RowOf(similar_props[1]) >= 2
    /\ similar_props[1].db_propositions = FileRow(RowOf(similar_props[1])).text
    /\ Similarity(1) # similar_props[1].similarity

\* The file read is a table with the columns 'text' and 'embeddings'.
TableRead == pc # "load" /\ {"text", "embeddings"} \subseteq csv.columns
\* The rows of the file read whose embeddings cell float() rejects, and the
\* other rows.
BadRows ==
    {i \in 1..Len(csv.cells) :
        \E c \in 1..Len(csv.cells[i]) : csv.cells[i][c] \notin {"0", "1", "nan"}}
GoodRows == (1..Len(csv.cells)) \ BadRows

\* C15, as claimed: when the embedding of a database row cannot be parsed, the
\* loader skips that row only and returns every other row, embeddings and
\* entries aligned.
C15_BadRowSkipped ==
    (TableRead /\ BadRows # {})
        => /\ Len(db_propositions) = Cardinality(GoodRows)
           /\ Len(db_embeddings.data) = Cardinality(GoodRows)
           /\ \A i \in GoodRows :
                  \E p \in 1..Len(db_propositions) :
                      db_propositions[p].id = FileRow(i).id

\* C15, amended: when the embedding of a database row cannot be parsed, the
\* load fails as a whole: no row is loaded, no proposition is matched, nothing
\* is written and main returns 1.
C15_BadRowFailsLoad ==
    (TableRead /\ BadRows # {})
        => /\ pc = "exit" /\ exit_code = 1
           /\ db_propositions = <<>>
           /\ db_embeddings.data = <<>>
           /\ ~Called
           /\ output = None

\* C15 witness: a file with a row that parses and a row that does not was
\* read, and main has returned.
C15_Witness ==
    /\ TableRead /\ BadRows # {} /\ GoodRows # {}
    /\ pc = "exit"

\* The file read cannot be loaded: it is unreadable, it lacks the column 'text'
\* or 'embeddings', or a cell of its embeddings does not parse.
CannotLoad ==
    /\ pc # "load"
    /\ \/ "text" \notin csv.columns
       \/ "embeddings" \notin csv.columns
       \/ BadRows # {}

\* C18: if the reference database cannot be loaded, no proposition is matched,
\* main returns 1 and nothing is written to the output.
C18_LoadFailureExits ==
    CannotLoad
        => /\ pc = "exit" /\ exit_code = 1
           /\ ~Called /\ similar_props = <<>>
           /\ output = None

\* C18 witness: a file without the column 'embeddings' was read and main has
\* returned 1.
C18_Witness ==
    /\ pc = "exit" /\ exit_code = 1
    /\ csv.columns = {"id", "text"}

\* C19: for every top_k >= 0 the matcher returns at most top_k matches; with
\* top_k = 0 it returns none, on the threshold path and on the fallback path.
C19_AtMostTopK == Returned => Len(similar_props) <= top_k

\* The reference propositions as the copies that read the 'text' key get them.
TextKeyed ==
    [i \in Entries |-> [id |-> db_propositions[i].id,
                        text |-> db_propositions[i].db_proposition]]
\* What a copy selected: for each position the entry's id, its similarity and
\* the text it emitted under the key f.
Selection(results, f) ==
    [p \in 1..Len(results) |->
        <<results[p].id, results[p].similarity, results[p][f]>>]
\* The name a copy gives to the text field of a match.
TextField(results) ==
    {DOMAIN results[p] \ {"id", "similarity"} : p \in 1..Len(results)}
SrcCopy ==
    find_similar_propositions(query_embedding, db_embeddings, db_propositions,
                              threshold, top_k).results
SrctestCopy ==
    srctest_find_similar_propositions(query_embedding, db_embeddings, TextKeyed,
                                      threshold, top_k).results
CompareCopy ==
    compare_claims_find_similar_propositions(query_embedding, db_embeddings,
                                             db_propositions, threshold,
                                             top_k).results
SemanticCopy ==
    semantic_search_find_similar_propositions(query_embedding, db_embeddings,
                                              TextKeyed, threshold, top_k).results

\* C20: the four copies of find_similar_propositions select, for the same
\* similarities, threshold and top_k, the same entries in the same order with
\* the same similarity values and texts; only the name of the text field of an
\* emitted match differs ('db_propositions' in two copies, 'text' in the others).
C20_OneSelectionPolicy ==
    Returned =>
        LET src == SrcCopy
            srctest == SrctestCopy
            compare == CompareCopy
            semantic == SemanticCopy
            selected == Selection(src, "db_propositions")
        IN /\ selected = Selection(similar_props, "db_propositions")
           /\ Selection(srctest, "text") = selected
           /\ Selection(compare, "db_propositions") = selected
           /\ Selection(semantic, "text") = selected
           /\ TextField(src) \subseteq {{"db_propositions"}}
           /\ TextField(compare) \subseteq {{"db_propositions"}}
           /\ TextField(srctest) \subseteq {{"text"}}
           /\ TextField(semantic) \subseteq {{"text"}}
\* Three entries reach the threshold, two are asked for, and the best of them
\* is not among the first two rows: the copies have to sort before they cut.
C20_Witness ==
    /\ Returned
    /\ Cardinality(AboveThreshold) = 3
    /\ top_k = 2
    /\ Len(SemanticCopy) = 2
    /\ Similarity(3) > Similarity(1)
    /\ Similarity(3) > Similarity(2)

\* What the call of thread t returns when it runs alone.
Alone(t) ==
    find_similar_propositions(frames[t].query_embedding, db_embeddings,
                              db_propositions, threshold, top_k)
\* The threads work on the database.
Sharing == pc = "concurrent"

\* C16: however two matcher calls that share one database and have their own
\* queries interleave, each returns (or raises) what it returns alone, and the
\* shared embeddings and propositions stay what the loader returned.
C16_InterleavingSafe ==
    Sharing =>
        /\ \A t \in Threads :
               /\ frames[t].pc = "returned" =>
                      /\ Alone(t).error = None
                      /\ frames[t].results = Alone(t).results
               /\ frames[t].pc = "raised" => frames[t].error = Alone(t).error
        /\ db_embeddings = load_database_embeddings(csv).db_embeddings
        /\ db_propositions = load_database_embeddings(csv).db_propositions
\* Both calls have returned, for different queries, with different matches.
C16_Witness ==
    /\ Sharing
    /\ \A t \in Threads : frames[t].pc = "returned" /\ Len(frames[t].results) > 0
    /\ frames[1].query_embedding # frames[2].query_embedding
    /\ frames[1].results # frames[2].results

\* The documents of the input: the document itself, the documents of a list in
\* which a document has propositions, or the one document that wraps a list of
\* propositions.
InputDocuments ==
    IF data.type = "dict"
    THEN <<data.value>>
    ELSE IF \E i \in 1..Len(data.value) : HasPropositions(data.value[i])
         THEN data.value
         ELSE <<[documentId |-> "doc_1", propositions |-> data.value]>>
\* process_propositions_with_database has returned its documents.
ProcessReturned == pc = "return"
\* The proposition p is the input proposition p0 with the matches of its text.
Annotated(p, p0) ==
    /\ DOMAIN p = DOMAIN p0 \cup {"closest_database_matches"}
    /\ \A k \in DOMAIN p0 : p[k] = p0[k]
    /\ p.closest_database_matches =
           find_similar_propositions(create_embedding(PropText(p0)),
                                     db_embeddings, db_propositions,
                                     threshold, top_k).results
\* The document doc is the input document doc0 with every proposition annotated.
AnnotatedDocument(doc, doc0) ==
    /\ DOMAIN doc = DOMAIN doc0
    /\ \A k \in DOMAIN doc0 \ {"propositions"} : doc[k] = doc0[k]
    /\ Len(doc.propositions) = Len(doc0.propositions)
    /\ \A j \in 1..Len(doc0.propositions) :
           Annotated(doc.propositions[j], doc0.propositions[j])

\* C17: after process_propositions_with_database returns successfully, every
\* proposition of every document that has propositions carries the matcher's
\* result for its own text as 'closest_database_matches'; the number and order
\* of the documents and of their propositions are unchanged, and a document
\* without propositions is left untouched.
C17_EveryPropositionAnnotated ==
    ProcessReturned =>
        /\ Len(documents) = Len(InputDocuments)
        /\ \A i \in 1..Len(InputDocuments) :
               IF HasSome(InputDocuments[i])
               THEN AnnotatedDocument(documents[i], InputDocuments[i])
               ELSE documents[i] = InputDocuments[i]

\* The page has saved the enhanced JSON.
SearchSaved == pc = "saved"
\* The matches of the proposition at position g of all_propositions against
\* all the other propositions, from its own embedding.
OthersOf(g) ==
    semantic_search_find_similar_propositions(
        all_embeddings.data[g], Masked(all_embeddings, g),
        Without(all_propositions, g), threshold, top_k).results
\* The proposition at position g is the only one with its id and text.
Unmistakable(g) ==
    \A h \in 1..Len(all_propositions) :
        h # g => \/ all_propositions[h].id # all_propositions[g].id
                 \/ all_propositions[h].text # all_propositions[g].text

\* C21: on the Semantic Search page the 'closest_values' of every proposition
\* of every document are the matches of its own embedding against all the
\* other propositions and never hold the proposition itself, also when two
\* propositions have the same id.
C21_ClosestValuesExcludeSelf ==
    SearchSaved =>
        \A d \in 1..Len(documents) : HasSome(documents[d]) =>
            \A p \in 1..Len(documents[d].propositions) :
                LET g == Position(documents, d, p)
                    closest == documents[d].propositions[p].closest_values
                IN /\ closest = OthersOf(g)
                   /\ Unmistakable(g) =>
                          \A m \in 1..Len(closest) :
                              \/ closest[m].id # all_propositions[g].id
                              \/ closest[m].text # all_propositions[g].text

\* fix_markdown_with_gemini has returned.
FixReturned == pc \in {"fixed", "done"} /\ (calls > 0 \/ pc = "fixed")
\* The waits so far are 1 s, then 2 s: 2^attempt after failed attempt number
\* attempt, and none after the last attempt.
BackoffSoFar ==
    /\ Len(sleeps) <= max_retries - 1
    /\ \A i \in 1..Len(sleeps) : sleeps[i] = 2 ^ (i - 1)
\* How the retry loop stands in every state.
RetryDiscipline ==
    /\ calls <= max_retries
    /\ BackoffSoFar
    /\ pc = "call" =>
           /\ attempt < max_retries
           /\ calls = attempt
           /\ Len(sleeps) = attempt
    /\ FixReturned /\ response \in {"parts", "no parts"} =>
           /\ calls = Len(sleeps) + 1
           /\ ~cleaned_markdown.is_none
    /\ FixReturned /\ response = "raised" =>
           /\ calls = max_retries
           /\ Len(sleeps) = max_retries - 1
           /\ cleaned_markdown = PyNone
    /\ FixReturned /\ response = None => calls = 0 /\ cleaned_markdown = PyNone

\* C22: fix_markdown_with_gemini calls the Gemini API at most 3 times; a call
\* that returns a response ends the loop at once; a call that raises is
\* followed by a wait of 2^attempt seconds (1 s, then 2 s) and a new attempt
\* only while fewer than 3 attempts were made; after the third failure None is
\* returned without a further wait; and the function always terminates.
C22_AtMostThreeCalls == [](RetryDiscipline) /\ <>(pc = "done")
\* The third call has raised, after waits of 1 s and 2 s, and None was returned.
C22_Witness ==
    /\ pc = "done"
    /\ calls = 3
    /\ sleeps = <<1, 2>>
    /\ response = "raised"
    /\ cleaned_markdown = PyNone

\* C23: when Gemini answers with a response that has no parts,
\* fix_markdown_with_gemini returns the original markdown at once, with no
\* further call or wait, and process_markdown_content then returns the original
\* content: the step succeeds and its output equals its input.
C23_NoPartsKeepsOriginal ==
    response = "no parts" =>
        /\ pc \in {"fixed", "done"}
        /\ cleaned_markdown = Str(markdown_content)
        /\ calls = attempt + 1
        /\ Len(sleeps) = attempt
        /\ pc = "done" /\ fixer = "MarkdownFixer" =>
               /\ ~Falsy(processed)
               /\ processed = Str(markdown_content)
\* MarkdownFixer got a response without parts for a markdown that is not
\* stripped, after a failed attempt, and has returned it.
C23_Witness ==
    /\ response = "no parts"
    /\ pc = "done"
    /\ fixer = "MarkdownFixer"
    /\ calls = 2
    /\ Strip(markdown_content) # markdown_content
    /\ processed = Str(markdown_content)

\* The commands in the order of the pipeline, up to the n-th.
FirstCommands(n) == SubSeq(Commands, 1, n)
\* Some step has exited with a non-zero code.
SomeStepFailed == \E i \in 1..Len(returncodes) : returncodes[i] # 0

\* C24: the subprocesses of execute_pipeline are started in the order convert,
\* fix markdown, extract propositions, query database, select citations; a
\* step is started only after the previous step has exited with code 0; and
\* after a step that exits with a non-zero code no later step is started and
\* the pipeline returns no result.
C24_StepsInOrder ==
    /\ Len(started) <= Len(Commands)
    /\ started = FirstCommands(Len(started))
    /\ Len(returncodes) \in {Len(started) - 1, Len(started)}
    /\ process.status # "none" => Len(returncodes) = Len(started) - 1
    /\ \A i \in 1..(Len(started) - 1) : returncodes[i] = 0
    /\ SomeStepFailed =>
        /\ Len(started) = Len(returncodes)
        /\ process.status = "none"
        /\ pending = "None"
        /\ pc \in {"cleanup", "returned"}
        /\ pc = "returned" => returned = "None"
C24_Witness ==
    /\ pc = "returned"
    /\ started = FirstCommands(3)
    /\ returncodes = <<0, 0, 1>>
    /\ returned = "None"

\* C25: every monitoring loop of execute_pipeline ends, whatever the amount of
\* output the subprocess has to write to its stdout and stderr pipes: once the
\* parent polls a subprocess, it gets past the loop.
C25_MonitorTerminates == (pc = "monitor") ~> (pc # "monitor")

\* execute_pipeline has left after its temporary files were made.
ReturnedAfterFiles == pc = "returned" /\ api_keys
\* What the try block of execute_pipeline returns or raises, from the exit
\* codes of the steps: None after a non-zero code; otherwise the result, which
\* takes five steps, or an exception.
OutcomeOfSteps ==
    IF SomeStepFailed THEN {"None"}
    ELSE IF Len(returncodes) = Len(Commands) THEN {"result", "raised"}
    ELSE {"raised"}

\* C26: on every exit path of execute_pipeline after its temporary files were
\* made (the result, None after a failed step, an exception), the cleanup has
\* gone over each of the five files: the file was gone or os.unlink was tried
\* on it, never more than 3 times a file, a file is left only after 3 failed
\* attempts, and what execute_pipeline returns or raises is what the steps
\* decided, whatever the unlinks did.
C26_CleanupOnEveryExit ==
    /\ \A f \in DOMAIN unlinks : unlinks[f] <= unlink_attempts
    /\ ReturnedAfterFiles =>
        /\ DOMAIN unlinks = Files
        /\ \A f \in Files : f \notin on_disk \/ unlinks[f] = unlink_attempts
        /\ returned = pending
        /\ returned \in OutcomeOfSteps
C26_Witness ==
    /\ ReturnedAfterFiles
    /\ returned = "result"
    /\ unlinks[1] = unlink_attempts
    /\ 1 \in on_disk
    /\ unlinks[2] = 1
    /\ on_disk = {1}

====
